---- MODULE Spec2Model ----
(***************************************************************************)
(* Model of packages/wrangler/src/dev-registry/daemon.ts.                  *)
(*                                                                         *)
(* The workflow Engine (a Durable Object) with its status state machine,   *)
(* in-memory log, re-entrancy guard and the storage it talks to.  Every    *)
(* `await` of Engine.init is a suspension point at which other invocations *)
(* of the same Engine may run.                                             *)
(*                                                                         *)
(* The dev registry daemon of the same file: the `workers` map served      *)
(* over HTTP and the timer that ends the process when it is idle.          *)
(***************************************************************************)
EXTENDS Integers, Sequences, FiniteSets, TLC

\* ------------------------------------------------------------------ bounds
\* total number of init invocations issued in one behaviour
MaxInits == 3
\* total number of setStatus invocations made from outside
MaxSetStatus == 1
\* number of process evictions/restarts
MaxRestarts == 1
\* number of storage operations that may fail
MaxFaults == 1
\* the clock runs from 0 to MaxTime
MaxTime == 2
\* number of enqueue requests made by step code
MaxEnqueues == 2
\* invocations and enqueue requests in one behaviour with wake-ups
MaxEvents == 3
\* number of HTTP requests the registry daemon receives
MaxRequests == 3
\* the daemon's clock runs from 0 to MaxClockMs
MaxClockMs == 20000

\* the init invocations that may be in flight at the same time
Calls == {1, 2}

\* ------------------------------------------------------------------ values
\* `undefined` of the source; a defined value x of an optional field is <<x>>
Undefined == <<>>
Some(x) == <<x>>
\* `null` of the source
Null == "null"

\* enum InstanceStatus
Queued == "Queued"
Running == "Running"
Errored == "Errored"
Terminated == "Terminated"
Complete == "Complete"
InstanceStatus == {Queued, Running, Errored, Terminated, Complete}
\* the statuses init treats as final
TerminalStatuses == {Errored, Terminated, Complete}

\* The argument bundles init is called with:
\* (accountId, workflow, version, instance, event).
InitArgs ==
    { [accountId |-> n,
       workflow |-> [name |-> "wf"],
       version |-> [id |-> "ver"],
       instance |-> [name |-> IF n = 1 THEN "inst1" ELSE "inst2"],
       event |-> [payload |-> IF n = 1 THEN "payload1" ELSE "payload2"]]
      : n \in {1, 2} }

\* values USER_WORKFLOW.run may resolve with
RunValues == {"V"}
\* values USER_WORKFLOW.run may throw: Error objects and a plain value
RunErrors ==
    { [kind |-> "Error", name |-> "TypeError", message |-> "boom"],
      [kind |-> "value", value |-> "oops"] }
\* the error a failing storage operation rejects with
StorageError == [kind |-> "Error", name |-> "Error", message |-> "storage"]

\* reasons abort may be called with
AbortReasons == {"timeout"}

\* the delay of the exit timer (line 26), in ms
ExitTimeoutMs == 10000
\* the steps in which the daemon's time passes, in ms
Delays == {5000, 10000}

\* request methods and URL pathnames the daemon is sent; a pathname is the
\* sequence of its segments, "/workers/" being <<"workers", "">>
Methods == {"GET", "POST", "DELETE", "PUT"}
Pathnames ==
    { <<"workers">>, <<"workers", "">>, <<"workers", "a">>,
      <<"workers", "b", "">>, <<"workers", "a", "x">>, <<"registry">> }
\* worker definitions a POST body may carry
WorkerDefinitions == {"d1", "d2"}
\* the empty WorkerRegistry (line 12)
NoWorkers == [i \in {} |-> i]

\* ------------------------------------------------------------------ state
VARIABLES
    \* Engine fields (in memory, lost on eviction)
    logs,            \* this.logs
    status,          \* this.status
    isRunning,       \* this.isRunning
    accountId,       \* this.accountId
    instanceId,      \* this.instanceId
    workflowName,    \* this.workflowName
    priorityQueue,   \* this.priorityQueue: Undefined or the bundle it was built with
    \* persistent storage of the Durable Object (survives eviction)
    instanceMetadata,\* the INSTANCE_METADATA slot: Undefined or an argument bundle
    rows,            \* rows of table priority_queue, in insertion order
    alarm,           \* the wake-up armed at the alarm scheduler: Undefined or a time
    nextRowId,       \* next value of the INTEGER PRIMARY KEY
    \* storage transactions waiting to run, first in first out
    txQueue,
    \* the clock
    now,
    \* the init invocations
    pc,              \* where each invocation is suspended
    args,            \* its arguments
    local,           \* its local variables
    ret,             \* how it ended
    \* history (observation only)
    hist,
    \* the registry daemon process
    workers,         \* the `workers` map (line 12)
    exitTimeout,     \* the `exitTimeout` handle (line 22): Undefined or a timer id
    timers,          \* timers pending in the event loop: [id, due]
    clock,           \* the daemon's time, in ms
    phase,           \* where start() and the process are
    pending,         \* POST handlers suspended at `await consumers.json(req)`
    reg              \* history of the daemon (observation only)

\* the Engine, its storage and its invocations
workflowVars == <<logs, status, isRunning, accountId, instanceId, workflowName,
                  priorityQueue, instanceMetadata, rows, alarm, nextRowId, txQueue,
                  now, pc, args, local, ret, hist>>

\* the registry daemon
registryVars == <<workers, exitTimeout, timers, clock, phase, pending, reg>>

vars == <<workflowVars, registryVars>>

engineVars == <<logs, status, isRunning, accountId, instanceId, workflowName,
                priorityQueue>>
queueVars == <<rows, alarm, nextRowId>>
callVars == <<pc, args, local, ret>>

\* local variables of an invocation before it has read anything
NoLocal ==
    [ status |-> Undefined,      \* const status (line 254)
      metadata |-> Undefined,    \* what storage.get(INSTANCE_METADATA) gave
      txn |-> "none",            \* the awaited transaction: none/pending/committed/failed
      outcome |-> [kind |-> "none"], \* how USER_WORKFLOW.run ended
      trace |-> <<>>,            \* the steps the invocation has performed
      startStatus |-> Queued,    \* this.status when the invocation was issued
      startLogs |-> <<>>,        \* this.logs when the invocation was issued
      startRuns |-> 0,           \* run calls made before the invocation was issued
      startGuard |-> FALSE,      \* this.isRunning when line 245 was reached
      duringRun |-> FALSE,       \* a run was in flight when the invocation was issued
      failed |-> Undefined,      \* <<the storage operation of this invocation that failed>>
      popped |-> <<>> ]          \* what popPastEntries returned
\* an invocation that has not ended
Pending == [kind |-> "pending"]
Return(v) == [kind |-> "return", value |-> v]
Throw(e) == [kind |-> "throw", error |-> e]

\* history at construction
NoHist ==
    [ inits |-> 0,            \* init invocations issued
      setStatusCalls |-> 0,   \* setStatus invocations issued from outside
      puts |-> 0,             \* storage.put(INSTANCE_METADATA, ..) calls
      runs |-> 0,             \* USER_WORKFLOW.run calls since construction
      statusTrace |-> <<Queued>>, \* values this.status has held, in order
      faults |-> 0,           \* failed storage operations
      restarts |-> 0,
      evictedTerminal |-> FALSE, \* the process was evicted with a final status
      enqueues |-> 0,
      aborted |-> Undefined ] \* reason of an abort/terminate issued while active

\* history of the daemon at process start
NoReg ==
    [ requests |-> 0,          \* requests received
      timersCreated |-> 0,     \* setTimeout calls made
      lastActivity |-> Undefined, \* <<time of "ready" or of the last request>>
      messages |-> <<>>,       \* what process.send was called with
      last |-> Undefined,      \* <<the last request answered, with its response>>
      expected |-> NoWorkers ] \* the map the requests answered so far define

Init ==
    /\ logs = <<>>
    /\ status = Queued
    /\ isRunning = FALSE
    /\ accountId = Undefined
    /\ instanceId = Undefined
    /\ workflowName = Undefined
    /\ priorityQueue = Undefined
    /\ instanceMetadata = Undefined
    /\ rows = <<>>
    /\ alarm = Undefined
    /\ nextRowId = 1
    /\ txQueue = <<>>
    /\ now = 0
    /\ pc = [p \in Calls |-> "idle"]
    /\ args = [p \in Calls |-> Undefined]   \* <<bundle>> once issued
    /\ local = [p \in Calls |-> NoLocal]
    /\ ret = [p \in Calls |-> Pending]
    /\ hist = NoHist
    /\ workers = NoWorkers
    /\ exitTimeout = Undefined
    /\ timers = {}
    /\ clock = 0
    /\ phase = "start"
    /\ pending = {}
    /\ reg = NoReg

\* ------------------------------------------------------------ pure helpers
\* the arguments invocation p was issued with
Arg(p) == args[p][1]

\* the object writeLog pushes (lines 182-187); target defaults to null
LogEntry(event, group, target, metadata) ==
    [event |-> event, group |-> group, target |-> target, metadata |-> metadata]

\* this.logs after writeLog(event, group, target, metadata)
writeLog(lg, event, group, target, metadata) ==
    Append(lg, LogEntry(event, group, target, metadata))

\* the empty object literal {}
EmptyObject == [k \in {} |-> k]

\* metadata of the WORKFLOW_QUEUED entry (lines 277-283)
QueuedMetadata(a) ==
    [params |-> a.event.payload, versionId |-> a.version.id,
     trigger |-> [source |-> "API"]]

\* this.logs after the two writeLog calls of the first activation
FirstActivationLogs(lg, a) ==
    writeLog(writeLog(lg, "WORKFLOW_QUEUED", Null, Null, QueuedMetadata(a)),
             "WORKFLOW_START", Null, Null, EmptyObject)

\* the normalisation with name and message of an Error exchanged
NormalizeErrorSwapped(err) ==
    IF err.kind = "Error"
    THEN [message |-> err.name, name |-> err.message]
    ELSE [name |-> "Error", message |-> err.value]

\* the catch block's normalisation of what was thrown (lines 366-379)
NormalizeError(err) ==
    IF err.kind = "Error"
    THEN [message |-> err.message, name |-> err.name]
    ELSE [name |-> "Error", message |-> err.value]

\* the membership test of lines 255-261
IsFinal(s) == s \in {Errored, Terminated, Complete}

\* what init returns at lines 392-394
InitResult(a) == Some([id |-> a.instance.name])

\* number of entries of lg with the given event
CountEvent(lg, event) == Cardinality({i \in 1..Len(lg) : lg[i].event = event})

\* ------------------------------------------------- TimePriorityQueue (lib)
\* action column: 1 for added, 0 for deleted
ActionAdd == 1
ActionDelete == 0
EntryTypes == {1}
Hashes == {"h1", "h2"}

\* the rows popPastEntries leaves in the table
RemainingEntries(rs, t) == SelectSeq(rs, LAMBDA r : r.target_timestamp > t)

\* the rows with target_timestamp <= t, in table order
DueEntries(rs, t) == SelectSeq(rs, LAMBDA r : r.target_timestamp <= t)

\* sequence q with row r inserted by (target_timestamp, id)
RECURSIVE InsertByTime(_, _)
InsertByTime(q, r) ==
    IF q = <<>> THEN <<r>>
    ELSE IF \/ r.target_timestamp < q[1].target_timestamp
            \/ /\ r.target_timestamp = q[1].target_timestamp
               /\ r.id < q[1].id
         THEN <<r>> \o q
         ELSE <<q[1]>> \o InsertByTime(Tail(q), r)

RECURSIVE SortByTime(_)
SortByTime(q) ==
    IF q = <<>> THEN <<>> ELSE InsertByTime(SortByTime(Tail(q)), q[1])

\* what popPastEntries returns at time t
popPastEntries(rs, t) == SortByTime(DueEntries(rs, t))

\* the wake-up handleNextAlarm leaves armed for table rs
handleNextAlarm(rs) ==
    IF rs = <<>> THEN Undefined
    ELSE Some(CHOOSE t \in {rs[i].target_timestamp : i \in 1..Len(rs)} :
                \A i \in 1..Len(rs) : t <= rs[i].target_timestamp)

\* ------------------------------------------------------------ Engine.init
\* history after one more assignment to this.status
NoteStatus(h, s) == [h EXCEPT !.statusTrace = Append(@, s)]

\* init re-arming the wake-up before it drains the due entries
InitCallRearmFirst(p, a) ==
    /\ pc[p] \in {"idle", "done"}
    /\ \A q \in Calls : q < p => pc[q] \notin {"idle", "done"}
    /\ hist.inits < MaxInits
    /\ priorityQueue' = IF priorityQueue = Undefined THEN Some(a) ELSE priorityQueue
    /\ alarm' = handleNextAlarm(rows)
    /\ rows' = RemainingEntries(rows, now)
    /\ args' = [args EXCEPT ![p] = Some(a)]
    /\ local' = [local EXCEPT ![p] =
                    [NoLocal EXCEPT !.trace = <<"handleNextAlarm", "popPastEntries">>,
                                    !.startStatus = status,
                                    !.startLogs = logs,
                                    !.startRuns = hist.runs,
                                    !.duringRun = (\E q \in Calls : pc[q] = "run"),
                                    !.popped = popPastEntries(rows, now)]]
    /\ ret' = [ret EXCEPT ![p] = Pending]
    /\ pc' = [pc EXCEPT ![p] = "handleNextAlarm"]
    /\ hist' = [hist EXCEPT !.inits = @ + 1]
    /\ UNCHANGED <<logs, status, isRunning, accountId, instanceId, workflowName,
                   instanceMetadata, nextRowId, txQueue, now>>
    /\ UNCHANGED registryVars

\* init draining the due entries and leaving the armed wake-up as it was
InitCallNoRearm(p, a) ==
    /\ pc[p] \in {"idle", "done"}
    /\ \A q \in Calls : q < p => pc[q] \notin {"idle", "done"}
    /\ hist.inits < MaxInits
    /\ priorityQueue' = IF priorityQueue = Undefined THEN Some(a) ELSE priorityQueue
    /\ rows' = RemainingEntries(rows, now)
    /\ alarm' = alarm
    /\ args' = [args EXCEPT ![p] = Some(a)]
    /\ local' = [local EXCEPT ![p] =
                    [NoLocal EXCEPT !.trace = <<"popPastEntries">>,
                                    !.startStatus = status,
                                    !.startLogs = logs,
                                    !.startRuns = hist.runs,
                                    !.duringRun = (\E q \in Calls : pc[q] = "run"),
                                    !.popped = popPastEntries(rows, now)]]
    /\ ret' = [ret EXCEPT ![p] = Pending]
    /\ pc' = [pc EXCEPT ![p] = "handleNextAlarm"]
    /\ hist' = [hist EXCEPT !.inits = @ + 1]
    /\ UNCHANGED <<logs, status, isRunning, accountId, instanceId, workflowName,
                   instanceMetadata, nextRowId, txQueue, now>>
    /\ UNCHANGED registryVars

\* lines 229-243: build the queue if needed, drain, re-arm, suspend
InitCall(p, a) ==
    /\ pc[p] \in {"idle", "done"}
    /\ \A q \in Calls : q < p => pc[q] \notin {"idle", "done"}
    /\ hist.inits < MaxInits
    /\ priorityQueue' = IF priorityQueue = Undefined THEN Some(a) ELSE priorityQueue
    /\ rows' = RemainingEntries(rows, now)
    /\ alarm' = handleNextAlarm(rows')
    /\ args' = [args EXCEPT ![p] = Some(a)]
    /\ local' = [local EXCEPT ![p] =
                    [NoLocal EXCEPT !.trace = <<"popPastEntries", "handleNextAlarm">>,
                                    !.startStatus = status,
                                    !.startLogs = logs,
                                    !.startRuns = hist.runs,
                                    !.duringRun = (\E q \in Calls : pc[q] = "run"),
                                    !.popped = popPastEntries(rows, now)]]
    /\ ret' = [ret EXCEPT ![p] = Pending]
    /\ pc' = [pc EXCEPT ![p] = "handleNextAlarm"]
    /\ hist' = [hist EXCEPT !.inits = @ + 1]
    /\ UNCHANGED <<logs, status, isRunning, accountId, instanceId, workflowName,
                   instanceMetadata, nextRowId, txQueue, now>>
    /\ UNCHANGED registryVars

\* the identity fields assigned before the guard is tested
InitAfterAlarmAssignFirst(p) ==
    /\ pc[p] = "handleNextAlarm"
    /\ accountId' = Some(Arg(p).accountId)
    /\ instanceId' = Some(Arg(p).instance.name)
    /\ workflowName' = Some(Arg(p).workflow.name)
    /\ IF isRunning
       THEN /\ pc' = [pc EXCEPT ![p] = "done"]
            /\ ret' = [ret EXCEPT ![p] = Return(Undefined)]
            /\ local' = [local EXCEPT ![p].startGuard = TRUE]
       ELSE /\ local' = [local EXCEPT ![p].status = Some(status),
                                      ![p].trace = Append(@, "work")]
            /\ pc' = [pc EXCEPT ![p] = "getStatus"]
            /\ UNCHANGED ret
    /\ UNCHANGED <<logs, status, isRunning, priorityQueue, instanceMetadata,
                   rows, alarm, nextRowId, txQueue, now, args, hist>>
    /\ UNCHANGED registryVars

\* lines 245-254: the guard, the identity fields, the call of getStatus
InitAfterAlarm(p) ==
    /\ pc[p] = "handleNextAlarm"
    /\ IF isRunning
       THEN /\ pc' = [pc EXCEPT ![p] = "done"]
            /\ ret' = [ret EXCEPT ![p] = Return(Undefined)]
            /\ local' = [local EXCEPT ![p].startGuard = TRUE]
            /\ UNCHANGED <<accountId, instanceId, workflowName>>
       ELSE /\ accountId' = Some(Arg(p).accountId)
            /\ instanceId' = Some(Arg(p).instance.name)
            /\ workflowName' = Some(Arg(p).workflow.name)
            /\ local' = [local EXCEPT ![p].status = Some(status),
                                      ![p].trace = Append(@, "work")]
            /\ pc' = [pc EXCEPT ![p] = "getStatus"]
            /\ UNCHANGED ret
    /\ UNCHANGED <<logs, status, isRunning, priorityQueue, instanceMetadata,
                   rows, alarm, nextRowId, txQueue, now, args, hist>>
    /\ UNCHANGED registryVars

\* lines 255-265: the final-status test, the call of storage.get
InitAfterGetStatus(p) ==
    /\ pc[p] = "getStatus"
    /\ IF IsFinal(local[p].status[1])
       THEN /\ pc' = [pc EXCEPT ![p] = "done"]
            /\ ret' = [ret EXCEPT ![p] = Return(Undefined)]
            /\ UNCHANGED local
       ELSE /\ local' = [local EXCEPT ![p].metadata = instanceMetadata]
            /\ pc' = [pc EXCEPT ![p] = "storage.get"]
            /\ UNCHANGED ret
    /\ UNCHANGED <<engineVars, instanceMetadata, queueVars, txQueue, now, args, hist>>
    /\ UNCHANGED registryVars

\* lines 333-346: set the guard, start the Running transaction without
\* awaiting it, call USER_WORKFLOW.run; lg is this.logs at that point
StartRun(p, lg) ==
    /\ logs' = lg
    /\ isRunning' = TRUE
    /\ txQueue' = Append(txQueue, [call |-> p, status |-> Running, awaited |-> FALSE])
    /\ pc' = [pc EXCEPT ![p] = "run"]

\* lines 265-273 (and 333-346 when the metadata is there)
InitAfterGet(p) ==
    /\ pc[p] = "storage.get"
    /\ IF local[p].metadata = Undefined
       THEN /\ instanceMetadata' = Some(Arg(p))
            /\ pc' = [pc EXCEPT ![p] = "storage.put"]
            /\ hist' = [hist EXCEPT !.puts = @ + 1]
            /\ UNCHANGED <<logs, isRunning, txQueue>>
       ELSE /\ StartRun(p, logs)
            /\ hist' = [hist EXCEPT !.runs = @ + 1]
            /\ UNCHANGED instanceMetadata
    /\ UNCHANGED <<status, accountId, instanceId, workflowName, priorityQueue,
                   queueVars, now, args, local, ret>>
    /\ UNCHANGED registryVars

\* lines 277-346: the two first-activation log entries, then the run
InitAfterPut(p) ==
    /\ pc[p] = "storage.put"
    /\ StartRun(p, FirstActivationLogs(logs, Arg(p)))
    /\ hist' = [hist EXCEPT !.runs = @ + 1]
    /\ UNCHANGED <<status, accountId, instanceId, workflowName, priorityQueue,
                   instanceMetadata, queueVars, now, args, local, ret>>
    /\ UNCHANGED registryVars

\* run resolved with v, and Complete is set at once instead of in a
\* transaction queued behind the one that sets Running
RunResolvesNoTransaction(p, v) ==
    /\ pc[p] = "run"
    /\ logs' = writeLog(logs, "WORKFLOW_SUCCESS", Null, Null, [result |-> v])
    /\ status' = Complete
    /\ hist' = [hist EXCEPT !.statusTrace = Append(@, Complete)]
    /\ local' = [local EXCEPT ![p].txn = "committed",
                              ![p].outcome = [kind |-> "resolved", value |-> v]]
    /\ pc' = [pc EXCEPT ![p] = "transaction.Complete"]
    /\ UNCHANGED <<isRunning, accountId, instanceId, workflowName, priorityQueue,
                   instanceMetadata, queueVars, txQueue, now, args, ret>>
    /\ UNCHANGED registryVars

\* lines 346-362: run resolved with v
RunResolves(p, v) ==
    /\ pc[p] = "run"
    /\ logs' = writeLog(logs, "WORKFLOW_SUCCESS", Null, Null, [result |-> v])
    /\ txQueue' = Append(txQueue, [call |-> p, status |-> Complete, awaited |-> TRUE])
    /\ local' = [local EXCEPT ![p].txn = "pending",
                              ![p].outcome = [kind |-> "resolved", value |-> v]]
    /\ pc' = [pc EXCEPT ![p] = "transaction.Complete"]
    /\ UNCHANGED <<status, isRunning, accountId, instanceId, workflowName,
                   priorityQueue, instanceMetadata, queueVars, now, args, ret, hist>>
    /\ UNCHANGED registryVars

\* the catch block, lines 364-388, entered with err
Catch(p, err) ==
    /\ logs' = writeLog(logs, "WORKFLOW_FAILURE", Null, Null,
                        [error |-> NormalizeError(err)])
    /\ txQueue' = Append(txQueue, [call |-> p, status |-> Errored, awaited |-> TRUE])
    /\ pc' = [pc EXCEPT ![p] = "transaction.Errored"]

\* run threw e, and Errored is set at once instead of in a transaction queued
\* behind the one that sets Running
RunThrowsNoTransaction(p, e) ==
    /\ pc[p] = "run"
    /\ logs' = writeLog(logs, "WORKFLOW_FAILURE", Null, Null,
                        [error |-> NormalizeError(e)])
    /\ status' = Errored
    /\ hist' = [hist EXCEPT !.statusTrace = Append(@, Errored)]
    /\ local' = [local EXCEPT ![p].txn = "committed",
                              ![p].outcome = [kind |-> "threw", error |-> e]]
    /\ pc' = [pc EXCEPT ![p] = "transaction.Errored"]
    /\ UNCHANGED <<isRunning, accountId, instanceId, workflowName, priorityQueue,
                   instanceMetadata, queueVars, txQueue, now, args, ret>>
    /\ UNCHANGED registryVars

\* lines 346, 364-388: run threw e
RunThrows(p, e) ==
    /\ pc[p] = "run"
    /\ Catch(p, e)
    /\ local' = [local EXCEPT ![p].txn = "pending",
                              ![p].outcome = [kind |-> "threw", error |-> e]]
    /\ UNCHANGED <<status, isRunning, accountId, instanceId, workflowName,
                   priorityQueue, instanceMetadata, queueVars, now, args, ret, hist>>
    /\ UNCHANGED registryVars

\* setStatus (line 213)
setStatus(s) == status' = s

\* the storage runs the oldest waiting transaction: its closure calls setStatus
TransactionCommit ==
    /\ txQueue # <<>>
    /\ setStatus(txQueue[1].status)
    /\ hist' = NoteStatus(hist, txQueue[1].status)
    /\ txQueue' = Tail(txQueue)
    /\ local' = IF txQueue[1].awaited
                THEN [local EXCEPT ![txQueue[1].call].txn = "committed"]
                ELSE local
    /\ UNCHANGED <<logs, isRunning, accountId, instanceId, workflowName,
                   priorityQueue, instanceMetadata, queueVars, now, pc, args, ret>>
    /\ UNCHANGED registryVars

\* lines 363 / 389 and 392-394: the awaited transaction is done
InitAfterTransaction(p) ==
    /\ pc[p] \in {"transaction.Complete", "transaction.Errored"}
    /\ local[p].txn = "committed"
    /\ isRunning' = FALSE
    /\ ret' = [ret EXCEPT ![p] = Return(InitResult(Arg(p)))]
    /\ pc' = [pc EXCEPT ![p] = "done"]
    /\ UNCHANGED <<logs, status, accountId, instanceId, workflowName, priorityQueue,
                   instanceMetadata, queueVars, txQueue, now, args, local, hist>>
    /\ UNCHANGED registryVars

\* invocation p of init resumes after one of its awaits
InitResume(p) ==
    \/ InitAfterAlarm(p)
    \/ InitAfterGetStatus(p)
    \/ InitAfterGet(p)
    \/ InitAfterPut(p)
    \/ \E v \in RunValues : RunResolves(p, v)
    \/ \E e \in RunErrors : RunThrows(p, e)
    \/ InitAfterTransaction(p)

\* one step of invocation p of init
InitStep(p) ==
    \/ \E a \in InitArgs : InitCall(p, a)
    \/ InitResume(p)

\* init invocations only, storage never failing
NextInit ==
    \/ \E p \in Calls : InitStep(p)
    \/ TransactionCommit

SpecInit == Init /\ [][NextInit]_vars

\* ----------------------------------------------- the other public operations
\* readLogs (lines 194-199): returns this.logs and changes nothing
ReadLogs == UNCHANGED vars

\* getStatus (lines 201-206): returns this.status and changes nothing
GetStatus == UNCHANGED vars

\* setStatus (lines 208-214) called from outside
SetStatus(s) ==
    /\ hist.setStatusCalls < MaxSetStatus
    /\ setStatus(s)
    /\ hist' = [NoteStatus(hist, s) EXCEPT !.setStatusCalls = @ + 1]
    /\ UNCHANGED <<logs, isRunning, accountId, instanceId, workflowName,
                   priorityQueue, instanceMetadata, queueVars, txQueue, now,
                   callVars>>
    /\ UNCHANGED registryVars

\* history after abort/userTriggeredTerminate asked to stop an active instance
NoteAbort(h, reason) ==
    IF status \in {Queued, Running} THEN [h EXCEPT !.aborted = Some(reason)] ELSE h

\* abort (lines 216-218): an empty body
Abort(reason) ==
    /\ hist' = NoteAbort(hist, reason)
    /\ UNCHANGED <<engineVars, instanceMetadata, queueVars, txQueue, now, callVars>>
    /\ UNCHANGED registryVars

\* userTriggeredTerminate (line 220): an empty body
UserTriggeredTerminate ==
    /\ hist' = NoteAbort(hist, "user")
    /\ UNCHANGED <<engineVars, instanceMetadata, queueVars, txQueue, now, callVars>>
    /\ UNCHANGED registryVars

\* ------------------------------------------------------- step code, the clock
\* a uniqueness constraint that also covers the target_timestamp column
UniqueWithTimestamp(rs, action, entryType, hash, targetTimestamp) ==
    \E i \in 1..Len(rs) : /\ rs[i].action = action
                          /\ rs[i].entryType = entryType
                          /\ rs[i].hash = hash
                          /\ rs[i].target_timestamp = targetTimestamp

\* UNIQUE (action, entryType, hash) of the priority_queue table (line 164):
\* a row with these columns cannot be inserted into rs
ViolatesUnique(rs, action, entryType, hash, targetTimestamp) ==
    \E i \in 1..Len(rs) : /\ rs[i].action = action
                          /\ rs[i].entryType = entryType
                          /\ rs[i].hash = hash

\* TimePriorityQueue.enqueue(entryType, hash, targetTimestamp), called by step
\* code of a run: a no-op when the (Add, entryType, hash) row exists
Enqueue(entryType, hash, targetTimestamp) ==
    /\ priorityQueue # Undefined
    /\ hist.enqueues < MaxEnqueues
    /\ IF ViolatesUnique(rows, ActionAdd, entryType, hash, targetTimestamp)
       THEN UNCHANGED <<rows, nextRowId>>
       ELSE /\ rows' = Append(rows, [id |-> nextRowId,
                                     target_timestamp |-> targetTimestamp,
                                     action |-> ActionAdd,
                                     entryType |-> entryType,
                                     hash |-> hash])
            /\ nextRowId' = nextRowId + 1
    /\ hist' = [hist EXCEPT !.enqueues = @ + 1]
    /\ UNCHANGED <<engineVars, instanceMetadata, alarm, txQueue, now, callVars>>
    /\ UNCHANGED registryVars

\* time passes
Tick ==
    /\ now < MaxTime
    /\ now' = now + 1
    /\ UNCHANGED <<engineVars, instanceMetadata, queueVars, txQueue, callVars, hist>>
    /\ UNCHANGED registryVars

\* ------------------------------------------------------------ eviction
\* The process is evicted and the Engine constructed again (lines 140-148):
\* the fields are re-initialised, running invocations and waiting transactions
\* are gone, storage is kept.
Restart ==
    /\ hist.restarts < MaxRestarts
    /\ hist.inits > 0
    /\ logs' = <<>>
    /\ status' = Queued
    /\ isRunning' = FALSE
    /\ accountId' = Undefined
    /\ instanceId' = Undefined
    /\ workflowName' = Undefined
    /\ priorityQueue' = Undefined
    /\ txQueue' = <<>>
    /\ pc' = [p \in Calls |-> "idle"]
    /\ args' = [p \in Calls |-> Undefined]
    /\ local' = [p \in Calls |-> NoLocal]
    /\ ret' = [p \in Calls |-> Pending]
    /\ hist' = [hist EXCEPT !.restarts = @ + 1,
                            !.runs = 0,
                            !.statusTrace = <<Queued>>,
                            !.evictedTerminal = IsFinal(status)]
    /\ UNCHANGED <<instanceMetadata, queueVars, now>>
    /\ UNCHANGED registryVars

\* ------------------------------------------------------- storage failures
\* storage.get(INSTANCE_METADATA) rejects: init throws (line 265)
StorageGetFails(p) ==
    /\ pc[p] = "storage.get"
    /\ hist.faults < MaxFaults
    /\ pc' = [pc EXCEPT ![p] = "done"]
    /\ ret' = [ret EXCEPT ![p] = Throw(StorageError)]
    /\ local' = [local EXCEPT ![p].failed = Some("storage.get")]
    /\ hist' = [hist EXCEPT !.faults = @ + 1]
    /\ UNCHANGED <<engineVars, instanceMetadata, queueVars, txQueue, now, args>>
    /\ UNCHANGED registryVars

\* storage.put(INSTANCE_METADATA, ..) rejects: init throws (line 273)
StoragePutFails(p) ==
    /\ pc[p] = "storage.put"
    /\ hist.faults < MaxFaults
    /\ pc' = [pc EXCEPT ![p] = "done"]
    /\ ret' = [ret EXCEPT ![p] = Throw(StorageError)]
    /\ local' = [local EXCEPT ![p].failed = Some("storage.put")]
    /\ hist' = [hist EXCEPT !.faults = @ + 1]
    /\ UNCHANGED <<engineVars, instanceMetadata, queueVars, txQueue, now, args>>
    /\ UNCHANGED registryVars

\* The oldest waiting transaction rejects, before its closure ran or when it
\* commits (this.status is a field: a failed commit does not restore it).
TransactionFails(closureRan) ==
    /\ txQueue # <<>>
    /\ hist.faults < MaxFaults
    /\ IF closureRan
       THEN setStatus(txQueue[1].status)
       ELSE UNCHANGED status
    /\ hist' = [(IF closureRan THEN NoteStatus(hist, txQueue[1].status) ELSE hist)
                  EXCEPT !.faults = @ + 1]
    /\ txQueue' = Tail(txQueue)
    /\ local' = [local EXCEPT
                   ![txQueue[1].call].failed = Some(txQueue[1].status),
                   ![txQueue[1].call].txn =
                        IF txQueue[1].awaited THEN "failed" ELSE @]
    /\ UNCHANGED <<logs, isRunning, accountId, instanceId, workflowName,
                   priorityQueue, instanceMetadata, queueVars, now, pc, args, ret>>
    /\ UNCHANGED registryVars

\* line 360 rejected: the await is inside the try block, the catch block runs
InitAfterCompleteFails(p) ==
    /\ pc[p] = "transaction.Complete"
    /\ local[p].txn = "failed"
    /\ Catch(p, StorageError)
    /\ local' = [local EXCEPT ![p].txn = "pending"]
    /\ UNCHANGED <<status, isRunning, accountId, instanceId, workflowName,
                   priorityQueue, instanceMetadata, queueVars, now, args, ret, hist>>
    /\ UNCHANGED registryVars

\* line 386 rejected: the await is inside the catch block, init throws
InitAfterErroredFails(p) ==
    /\ pc[p] = "transaction.Errored"
    /\ local[p].txn = "failed"
    /\ pc' = [pc EXCEPT ![p] = "done"]
    /\ ret' = [ret EXCEPT ![p] = Throw(StorageError)]
    /\ UNCHANGED <<engineVars, instanceMetadata, queueVars, txQueue, now, args,
                   local, hist>>
    /\ UNCHANGED registryVars

\* ------------------------------------------------------- specifications
\* the public operations other than init
PublicOp ==
    \/ ReadLogs
    \/ GetStatus
    \/ \E s \in InstanceStatus : SetStatus(s)
    \/ \E r \in AbortReasons : Abort(r)
    \/ UserTriggeredTerminate

\* every public operation, one init invocation at a time
Next ==
    \/ InitStep(1)
    \/ TransactionCommit
    \/ PublicOp

Spec == Init /\ [][Next]_vars

\* invocations and scheduling requests made from outside so far
Events == hist.inits + hist.setStatusCalls + hist.enqueues

\* every public operation, one init invocation at a time, with step code
\* scheduling wake-ups and time passing; at most MaxEvents events
NextQueue ==
    \/ Events < MaxEvents /\ \E a \in InitArgs : InitCall(1, a)
    \/ InitResume(1)
    \/ TransactionCommit
    \/ ReadLogs
    \/ GetStatus
    \/ Events < MaxEvents /\ \E s \in InstanceStatus : SetStatus(s)
    \/ \E r \in AbortReasons : Abort(r)
    \/ UserTriggeredTerminate
    \/ Events < MaxEvents /\ \E ty \in EntryTypes, h \in Hashes, t \in 1..MaxTime :
                                Enqueue(ty, h, t)
    \/ Tick

SpecQueue == Init /\ [][NextQueue]_vars

\* init invocations and evictions
NextRestart ==
    \/ NextInit
    \/ Restart

SpecRestart == Init /\ [][NextRestart]_vars

\* one init invocation at a time, with storage operations that may fail
NextFault ==
    \/ InitStep(1)
    \/ TransactionCommit
    \/ StorageGetFails(1)
    \/ StoragePutFails(1)
    \/ InitAfterCompleteFails(1)
    \/ InitAfterErroredFails(1)
    \/ \E closureRan \in BOOLEAN : TransactionFails(closureRan)

SpecFault == Init /\ [][NextFault]_vars

\* ------------------------------------------------------------------ claims
\* the invocations that have been issued
Issued == {p \in Calls : args[p] # Undefined}
\* the invocations whose step runner call is in flight
InFlight == {p \in Calls : pc[p] = "run"}
\* s is a prefix of t
IsPrefix(s, t) == Len(s) <= Len(t) /\ \A i \in 1..Len(s) : s[i] = t[i]

\* C1: two init calls with identical arguments, both issued against a fresh
\* Engine before any run starts, leave exactly one WORKFLOW_QUEUED entry, exactly
\* one WORKFLOW_START entry and exactly one storage.put of INSTANCE_METADATA,
\* whatever the interleaving of the two calls.
C1_IdempotentFirstActivation ==
    ( /\ hist.inits = 2
      /\ Issued = Calls
      /\ \A p, q \in Calls : args[p] = args[q]
      /\ \A p \in Calls : local[p].startRuns = 0 /\ local[p].startStatus = Queued )
    => /\ CountEvent(logs, "WORKFLOW_QUEUED") <= 1
       /\ CountEvent(logs, "WORKFLOW_START") <= 1
       /\ hist.puts <= 1
       /\ (\A p \in Calls : pc[p] = "done")
             => /\ CountEvent(logs, "WORKFLOW_QUEUED") = 1
                /\ CountEvent(logs, "WORKFLOW_START") = 1
                /\ hist.puts = 1

\* C2: an init call issued while status is Complete, Errored or Terminated
\* returns with status and the log as they were when it was issued, and has not
\* invoked the step runner.
C2_TerminalStability ==
    \A p \in Issued :
        (pc[p] = "done" /\ IsFinal(local[p].startStatus))
        => /\ status = local[p].startStatus
           /\ logs = local[p].startLogs
           /\ local[p].outcome.kind = "none"

\* C4: when the step runner has been invoked once and resolved with V, status
\* has gone Queued, Running, Complete in that order, the last log entry is
\* WORKFLOW_SUCCESS with metadata.result = V, and once init has returned it has
\* returned {id: instance.name} with status Complete.
C4_SuccessPath ==
    \A p \in Issued :
        (hist.runs = 1 /\ local[p].outcome.kind = "resolved")
        => /\ logs # <<>>
           /\ logs[Len(logs)] = LogEntry("WORKFLOW_SUCCESS", Null, Null,
                                         [result |-> local[p].outcome.value])
           /\ IsPrefix(hist.statusTrace, <<Queued, Running, Complete>>)
           /\ pc[p] = "done"
                 => /\ status = Complete
                    /\ hist.statusTrace = <<Queued, Running, Complete>>
                    /\ ret[p] = Return(Some([id |-> Arg(p).instance.name]))
                    /\ ~isRunning

\* a run resolved, both transactions committed and init returned
C4_Witness ==
    \E p \in Issued :
        /\ hist.runs = 1 /\ local[p].outcome.kind = "resolved"
        /\ pc[p] = "done" /\ status = Complete
        /\ CountEvent(logs, "WORKFLOW_SUCCESS") = 1

\* what the WORKFLOW_FAILURE entry must carry for thrown value e
ExpectedError(e) ==
    IF e.kind = "Error" THEN [name |-> e.name, message |-> e.message]
    ELSE [name |-> "Error", message |-> e.value]

\* C5: a value E thrown by the step runner never leaves init.  When the step
\* runner has been invoked once and threw E, the last log entry is
\* WORKFLOW_FAILURE carrying {name, message} of E (name "Error" and message E
\* when E is no Error); when no storage operation failed, status has gone
\* Queued, Running, Errored in that order and init returns normally.
C5_FailureContainment ==
    /\ \A p \in Calls : ret[p].kind = "throw" => ret[p].error \notin RunErrors
    /\ \A p \in Issued :
        (hist.runs = 1 /\ local[p].outcome.kind = "threw")
        => /\ logs # <<>>
           /\ logs[Len(logs)].event = "WORKFLOW_FAILURE"
           /\ logs[Len(logs)].metadata =
                 [error |-> ExpectedError(local[p].outcome.error)]
           /\ hist.faults = 0
                 => /\ IsPrefix(hist.statusTrace, <<Queued, Running, Errored>>)
                    /\ pc[p] = "done"
                          => /\ status = Errored
                             /\ hist.statusTrace = <<Queued, Running, Errored>>
                             /\ ret[p] = Return(Some([id |-> Arg(p).instance.name]))

\* a run threw a value that is no Error, and init returned
C5_Witness ==
    \E p \in Issued :
        /\ hist.runs = 1 /\ local[p].outcome.kind = "threw"
        /\ local[p].outcome.error.kind = "value"
        /\ hist.faults = 0
        /\ pc[p] = "done" /\ status = Errored

\* C8: at most one call of USER_WORKFLOW.run is in flight at any time, and an
\* init issued while a run is in flight does not invoke the step runner.
C8_SingleRunInFlight ==
    /\ Cardinality(InFlight) <= 1
    /\ \A p \in Issued :
          local[p].duringRun => (local[p].outcome.kind = "none" /\ pc[p] # "run")

\* C3: under every sequence of public operations, a final status (Complete,
\* Errored, Terminated) is never changed by a later step, and status never
\* moves from Running back to Queued.
C3_StatusMonotone ==
    [][ /\ IsFinal(status) => status' = status
        /\ status = Running => status' # Queued ]_vars

\* C6: a storage operation of init that fails reaches the caller of init as an
\* error: an init one of whose storage operations failed ends by throwing that
\* error, and no WORKFLOW_FAILURE entry is made out of a storage error.
C6_StorageFailuresSurface ==
    /\ \A p \in Issued :
          (pc[p] = "done" /\ local[p].failed # Undefined)
          => ret[p] = Throw(StorageError)
    /\ \A i \in 1..Len(logs) :
          logs[i].event = "WORKFLOW_FAILURE"
          => logs[i].metadata.error # NormalizeError(StorageError)

\* nothing is running or waiting
Quiescent == txQueue = <<>> /\ \A p \in Calls : pc[p] \in {"idle", "done"}

\* entry records reason r
RecordsReason(entry, r) ==
    "reason" \in DOMAIN entry.metadata /\ entry.metadata.reason = r

\* C7: after abort(reason) or userTriggeredTerminate() was called while status
\* was Queued or Running, once nothing is running or waiting any more status is
\* Terminated and the log holds an entry recording the reason.
C7_AbortTerminates ==
    (hist.aborted # Undefined /\ Quiescent)
    => /\ status = Terminated
       /\ \E i \in 1..Len(logs) : RecordsReason(logs[i], hist.aborted[1])

\* C9: after the process was evicted with a final status and restarted, an
\* init reads a final status, the step runner is not invoked again and status
\* is not written again.
C9_ReplayAfterRestart ==
    hist.evictedTerminal
    => /\ \A p \in Issued :
             local[p].status # Undefined => IsFinal(local[p].status[1])
       /\ hist.runs = 0
       /\ txQueue = <<>>
       /\ hist.statusTrace = <<Queued>>

\* the step is the issue of an init invocation
IsInitCall == hist'.inits = hist.inits + 1
\* the step is an enqueue request
IsEnqueue == hist'.enqueues = hist.enqueues + 1

\* C10 (as amended): every init invocation first drains the due scheduled
\* entries, then re-arms the next wake-up on what remains, and only then does
\* its own work; getStatus, setStatus, readLogs, abort and
\* userTriggeredTerminate neither drain nor re-arm.
C10_InitDrainsThenRearms ==
    /\ [](\A p \in Issued :
            IsPrefix(local[p].trace, <<"popPastEntries", "handleNextAlarm", "work">>))
    /\ [][ IsInitCall
           => /\ DueEntries(rows', now) = <<>>
              /\ rows' = RemainingEntries(rows, now)
              /\ alarm' = handleNextAlarm(rows')
              /\ UNCHANGED <<logs, status, isRunning, accountId, instanceId,
                             workflowName, instanceMetadata>> ]_vars
    /\ [][ ~IsInitCall
           => /\ alarm' = alarm
              /\ ~IsEnqueue => rows' = rows ]_vars

\* an init invocation drained a due entry and went on to its own work
C10_Witness ==
    \E p \in Issued :
        /\ local[p].popped # <<>>
        /\ local[p].trace = <<"popPastEntries", "handleNextAlarm", "work">>

\* C10 (as stated): every external invocation drains the due entries and
\* re-arms the wake-up before its own work; seen on the invocations that leave
\* a mark: init, setStatus, and abort/userTriggeredTerminate on an active
\* instance.
C10_EveryInvocationDrains ==
    [][ ( \/ IsInitCall
          \/ hist'.setStatusCalls = hist.setStatusCalls + 1
          \/ hist'.aborted # hist.aborted )
        => /\ DueEntries(rows', now') = <<>>
           /\ alarm' = handleNextAlarm(rows') ]_vars

\* C11: once the INSTANCE_METADATA slot holds a value, no later step changes
\* it, whatever the arguments and the interleaving of the init calls.
C11_MetadataImmutable ==
    [][ instanceMetadata # Undefined => instanceMetadata' = instanceMetadata ]_vars

\* the (action, entryType, hash) triple of a row
Triple(r) == <<r.action, r.entryType, r.hash>>

\* C12: the priority_queue table never holds two rows with the same (action,
\* entryType, hash) triple, and an enqueue leaves the table as it was unless it
\* appends one row whose triple the table did not hold: an enqueue whose
\* (Add, entryType, hash) row exists changes nothing.
C12_SchedulingIdempotence ==
    /\ [](\A i, j \in 1..Len(rows) : Triple(rows[i]) = Triple(rows[j]) => i = j)
    /\ [][ IsEnqueue
           => \/ rows' = rows /\ nextRowId' = nextRowId
              \/ /\ Len(rows') = Len(rows) + 1
                 /\ SubSeq(rows', 1, Len(rows)) = rows
                 /\ \A i \in 1..Len(rows) :
                        Triple(rows[i]) # Triple(rows'[Len(rows')]) ]_vars

\* two enqueue requests were made and only one row was ever inserted
C12_Witness ==
    /\ hist.enqueues = 2
    /\ nextRowId = 2
    /\ Len(rows) = 1

\* one init invocation at a time, with step code scheduling wake-ups and time
\* passing
NextSeq ==
    \/ InitStep(1)
    \/ TransactionCommit
    \/ \E ty \in EntryTypes, h \in Hashes, t \in 1..MaxTime : Enqueue(ty, h, t)
    \/ Tick

SpecSeq == Init /\ [][NextSeq]_vars

\* the target timestamps of the rows of rs
Targets(rs) == {rs[i].target_timestamp : i \in 1..Len(rs)}

\* C13: when an init call has drained the due entries and re-armed, no due
\* entry remains, no wake-up is armed if no entry remains, and otherwise the
\* one wake-up armed is at a target_timestamp of a remaining entry that no
\* remaining entry precedes.
C13_AlarmMinimality ==
    [][ IsInitCall
        => /\ \A t \in Targets(rows') : t > now
           /\ Targets(rows') = {} => alarm' = Undefined
           /\ Targets(rows') # {}
                 => /\ Len(alarm') = 1
                    /\ alarm'[1] \in Targets(rows')
                    /\ \A t \in Targets(rows') : alarm'[1] <= t ]_vars

\* an init call found two entries remaining, the later one inserted first, and
\* armed the wake-up for the earlier one
C13_Witness ==
    \E p \in Issued :
        /\ pc[p] = "handleNextAlarm"
        /\ Len(rows) = 2
        /\ rows[1].target_timestamp > rows[2].target_timestamp
        /\ alarm = Some(rows[2].target_timestamp)

\* the status the run of invocation p ends in
FinalOf(p) == IF local[p].outcome.kind = "resolved" THEN Complete ELSE Errored

\* C14: in one init run the write of Running takes effect before the write of
\* Complete or Errored, also when the step runner ends before the Running
\* transaction has run: Running is only ever written over Queued, Complete and
\* Errored only over Running, and once init has returned no transaction is
\* left waiting and status is the final value of the run.
C14_RunningBeforeFinal ==
    /\ [][ status' # status
           => /\ status' = Running => status = Queued
              /\ status' \in {Complete, Errored} => status = Running ]_vars
    /\ [](\A p \in Issued :
            (pc[p] = "done" /\ local[p].outcome.kind # "none")
            => /\ status = FinalOf(p)
               /\ \A i \in 1..Len(txQueue) : txQueue[i].call # p)

\* the step runner threw before the Running transaction had run: both
\* transactions of the invocation are waiting
C14_Witness ==
    \E p \in Issued :
        /\ pc[p] = "transaction.Errored"
        /\ Len(txQueue) = 2
        /\ txQueue[1] = [call |-> p, status |-> Running, awaited |-> FALSE]
        /\ status = Queued

\* C15: whenever no init call is in progress the re-entrancy guard is clear:
\* every init call that set it has cleared it, whether the step runner
\* resolved or threw.
C15_GuardReleased ==
    (\A p \in Calls : pc[p] \in {"idle", "done"}) => ~isRunning

\* C16: every step leaves the log entries there are in place and in order,
\* adding only at the end; each WORKFLOW_QUEUED entry is immediately followed
\* by a WORKFLOW_START entry, and both kinds precede every WORKFLOW_SUCCESS and
\* WORKFLOW_FAILURE entry.
C16_LogAppendOnlyCausal ==
    /\ [][IsPrefix(logs, logs')]_vars
    /\ [](\A i \in 1..Len(logs) :
            logs[i].event = "WORKFLOW_QUEUED"
            => i < Len(logs) /\ logs[i + 1].event = "WORKFLOW_START")
    /\ [](\A i, j \in 1..Len(logs) :
            ( /\ logs[i].event \in {"WORKFLOW_QUEUED", "WORKFLOW_START"}
              /\ logs[j].event \in {"WORKFLOW_SUCCESS", "WORKFLOW_FAILURE"} )
            => i < j)

\* one init invocation at a time, and further init invocations issued while
\* the guard is set, with step code scheduling wake-ups and time passing; at
\* most MaxEvents events
NextGuard ==
    \/ Events < MaxEvents /\ \E a \in InitArgs : InitCall(1, a)
    \/ InitResume(1)
    \/ Events < MaxEvents /\ isRunning /\ \E a \in InitArgs : InitCall(2, a)
    \/ InitResume(2)
    \/ TransactionCommit
    \/ Events < MaxEvents /\ \E ty \in EntryTypes, h \in Hashes, t \in 1..MaxTime :
                                Enqueue(ty, h, t)
    \/ Tick

SpecGuard == Init /\ [][NextGuard]_vars

\* the step is invocation p returning at the guard test of line 245
IsGuardReturn(p) == pc[p] = "handleNextAlarm" /\ isRunning /\ pc'[p] = "done"

\* C17: an init call that finds the guard set has drained the due entries and
\* re-armed the wake-up and done nothing else: its steps leave status, the log,
\* INSTANCE_METADATA, the guard and accountId/instanceId/workflowName as they
\* were, start no transaction and no run, and it returns nothing.
C17_GuardedInitOnlyDrains ==
    /\ [][ (IsInitCall /\ isRunning)
           => /\ \A t \in Targets(rows') : t > now
              /\ \A i \in 1..Len(rows) :
                    rows[i].target_timestamp > now
                    => \E j \in 1..Len(rows') : rows'[j] = rows[i]
              /\ alarm' = IF rows' = <<>> THEN Undefined
                          ELSE Some(CHOOSE t \in Targets(rows') :
                                      \A u \in Targets(rows') : t <= u)
              /\ UNCHANGED <<status, logs, instanceMetadata, isRunning,
                             accountId, instanceId, workflowName, txQueue>>
              /\ hist'.runs = hist.runs ]_vars
    /\ [][ \A p \in Calls :
             IsGuardReturn(p)
             => /\ UNCHANGED <<status, logs, instanceMetadata, isRunning,
                               accountId, instanceId, workflowName, txQueue,
                               rows, alarm>>
                /\ hist'.runs = hist.runs
                /\ ret'[p] = Return(Undefined) ]_vars
    /\ [](\A p \in Issued :
            local[p].startGuard
            => /\ local[p].trace = <<"popPastEntries", "handleNextAlarm">>
               /\ local[p].outcome.kind = "none"
               /\ pc[p] = "done")

\* an init call issued with other arguments than the run in progress drained
\* a due entry, found the guard set and returned
C17_Witness ==
    \E p \in Issued :
        /\ local[p].startGuard
        /\ local[p].popped # <<>>
        /\ pc[p] = "done"
        /\ accountId # Some(Arg(p).accountId)

\* C18: a run of the step runner leaves one WORKFLOW_SUCCESS entry or one
\* WORKFLOW_FAILURE entry in the log, never both: the log holds at most one
\* outcome entry per run, none of them WORKFLOW_FAILURE when status is
\* Complete and none of them WORKFLOW_SUCCESS when status is Errored.
C18_OneOutcomePerRun ==
    /\ CountEvent(logs, "WORKFLOW_SUCCESS") + CountEvent(logs, "WORKFLOW_FAILURE")
          <= hist.runs
    /\ status = Complete => CountEvent(logs, "WORKFLOW_FAILURE") = 0
    /\ status = Errored => CountEvent(logs, "WORKFLOW_SUCCESS") = 0

\* ------------------------------------------------------- registry daemon
\* JSON.stringify(workers) as a response body, `null` as a response body, and
\* the empty body of notFoundResponse
JsonBody(map) == [kind |-> "map", map |-> map]
NullBody == [kind |-> "null"]
NoBody == [kind |-> "none"]

\* setTimeout without the clearTimeout before it
ArmWithoutClear(tms, handle, id, t) ==
    tms \cup {[id |-> id, due |-> t + ExitTimeoutMs]}

\* the timers pending after resetExitTimeout() at time t (lines 24-27):
\* clearTimeout(exitTimeout), then setTimeout(exit, 10_000) giving timer id
resetExitTimeout(tms, handle, id, t) ==
    {tm \in tms : Some(tm.id) # handle} \cup {[id |-> id, due |-> t + ExitTimeoutMs]}

\* /^\/workers\/?$/.test(pathname) (line 36)
TestCollection(path) == path \in {<<"workers">>, <<"workers", "">>}

\* no match of a regular expression (exec returned null)
NoMatch == [matched |-> FALSE, id |-> Undefined]

\* /^\/workers\/(?<id>[^/]+)\/?$/.exec(pathname) (line 41)
ExecItem(path) ==
    IF /\ Len(path) \in {2, 3}
       /\ path[1] = "workers"
       /\ path[2] # ""
       /\ Len(path) = 3 => path[3] = ""
    THEN [matched |-> TRUE, id |-> Some(path[2])]
    ELSE NoMatch

\* /^\/workers\/(?<id>[^/]+)?\/?$/.exec(pathname) (line 50): the slash after
\* "workers" is required, the id and a further slash are optional
ExecOptionalItem(path) ==
    IF /\ Len(path) \in {2, 3}
       /\ path[1] = "workers"
       /\ Len(path) = 3 => path[3] = ""
    THEN [matched |-> TRUE,
          id |-> IF path[2] # "" THEN Some(path[2]) ELSE Undefined]
    ELSE NoMatch

\* workers after `workers[id] = def` (line 46)
SetWorker(map, id, def) ==
    [i \in DOMAIN map \cup {id} |-> IF i = id THEN def ELSE map[i]]

\* workers after `delete workers[id]` (line 57)
DeleteWorker(map, id) == [i \in DOMAIN map \ {id} |-> map[i]]

\* the routes of the registry as its clients know them: the collection
\* /workers and the items /workers/:id, with or without a final slash
IsCollectionPath(path) == path \in {<<"workers">>, <<"workers", "">>}
IsItemPath(path) ==
    /\ Len(path) \in {2, 3}
    /\ path[1] = "workers"
    /\ path[2] # ""
    /\ Len(path) = 3 => path[3] = ""
IsRoute(method, path) ==
    \/ method = "GET" /\ IsCollectionPath(path)
    \/ method = "POST" /\ IsItemPath(path)
    \/ method = "DELETE" /\ (IsItemPath(path) \/ IsCollectionPath(path))

\* the map the registry is to hold after a request, given the map before it
ExpectedAfter(map, method, path, def) ==
    IF method = "POST" /\ IsItemPath(path)
    THEN [i \in DOMAIN map \cup {path[2]} |-> IF i = path[2] THEN def ELSE map[i]]
    ELSE IF method = "DELETE" /\ IsItemPath(path)
    THEN [i \in DOMAIN map \ {path[2]} |-> map[i]]
    ELSE IF method = "DELETE" /\ IsCollectionPath(path)
    THEN NoWorkers
    ELSE map

\* history after a request was answered
NoteAnswer(h, method, path, def, code, body, before, after) ==
    [h EXCEPT !.last = Some([method |-> method, path |-> path, def |-> def,
                             status |-> code, body |-> body,
                             before |-> before, after |-> after]),
              !.expected = ExpectedAfter(@, method, path, def)]

\* history after a request was received at time t
NoteRequest(h, t) ==
    [h EXCEPT !.requests = @ + 1,
              !.timersCreated = @ + 1,
              !.lastActivity = Some(t)]

\* start() up to `await events.once(server, "listening")` (lines 65-68)
Listen ==
    /\ phase = "start"
    /\ phase' = "listening"
    /\ UNCHANGED <<workers, exitTimeout, timers, clock, pending, reg>>
    /\ UNCHANGED workflowVars

\* the server is listening: "ready" is sent and the exit timer armed
\* (lines 69-70)
Listening ==
    /\ phase = "listening"
    /\ phase' = "ready"
    /\ timers' = resetExitTimeout(timers, exitTimeout, reg.timersCreated + 1, clock)
    /\ exitTimeout' = Some(reg.timersCreated + 1)
    /\ reg' = [reg EXCEPT !.timersCreated = @ + 1,
                          !.lastActivity = Some(clock),
                          !.messages = Append(@, "ready")]
    /\ UNCHANGED <<workers, clock, pending>>
    /\ UNCHANGED workflowVars

\* the server fails to listen: "error" is sent, the exit code set and the
\* process ends with nothing left to wait for (lines 71-73)
ListenFails ==
    /\ phase = "listening"
    /\ phase' = "failed"
    /\ reg' = [reg EXCEPT !.messages = Append(@, "error")]
    /\ UNCHANGED <<workers, exitTimeout, timers, clock, pending>>
    /\ UNCHANGED workflowVars

\* requestListener (lines 32-63) called with a request; a POST handler
\* suspends at `await consumers.json(req)`
Request(method, path) ==
    /\ phase = "ready"
    /\ reg.requests < MaxRequests
    /\ timers' = resetExitTimeout(timers, exitTimeout, reg.timersCreated + 1, clock)
    /\ exitTimeout' = Some(reg.timersCreated + 1)
    /\ IF method = "GET" /\ TestCollection(path)
       THEN /\ reg' = NoteAnswer(NoteRequest(reg, clock), method, path, Null,
                                 200, JsonBody(workers), workers, workers)
            /\ UNCHANGED <<workers, pending>>
       ELSE IF method = "POST" /\ ExecItem(path).matched
       THEN /\ pending' = pending \cup {[req |-> reg.requests + 1, path |-> path,
                                         id |-> ExecItem(path).id[1]]}
            /\ reg' = NoteRequest(reg, clock)
            /\ UNCHANGED workers
       ELSE IF method = "DELETE" /\ ExecOptionalItem(path).matched
       THEN /\ workers' = IF ExecOptionalItem(path).id = Undefined
                          THEN NoWorkers
                          ELSE DeleteWorker(workers, ExecOptionalItem(path).id[1])
            /\ reg' = NoteAnswer(NoteRequest(reg, clock), method, path, Null,
                                 200, NullBody, workers, workers')
            /\ UNCHANGED pending
       ELSE /\ reg' = NoteAnswer(NoteRequest(reg, clock), method, path, Null,
                                 404, NoBody, workers, workers)
            /\ UNCHANGED <<workers, pending>>
    /\ UNCHANGED <<clock, phase>>
    /\ UNCHANGED workflowVars

\* the body of POST request r has arrived and parsed to def (lines 46-47)
PostBody(r, def) ==
    /\ phase = "ready"
    /\ r \in pending
    /\ workers' = SetWorker(workers, r.id, def)
    /\ pending' = pending \ {r}
    /\ reg' = NoteAnswer(reg, "POST", r.path, def, 200, NullBody, workers, workers')
    /\ UNCHANGED <<exitTimeout, timers, clock, phase>>
    /\ UNCHANGED workflowVars

\* d ms pass
Advance(d) ==
    /\ phase \notin {"failed", "exited"}
    /\ clock + d <= MaxClockMs
    /\ clock' = clock + d
    /\ UNCHANGED <<workers, exitTimeout, timers, phase, pending, reg>>
    /\ UNCHANGED workflowVars

\* a timer that is due runs its callback exit (lines 28-30): process.exit(0)
ExitTimerFires ==
    /\ phase = "ready"
    /\ \E tm \in timers : /\ tm.due <= clock
                          /\ timers' = timers \ {tm}
    /\ phase' = "exited"
    /\ UNCHANGED <<workers, exitTimeout, clock, pending, reg>>
    /\ UNCHANGED workflowVars

\* the registry daemon process
NextRegistry ==
    \/ Listen
    \/ Listening
    \/ ListenFails
    \/ \E method \in Methods, path \in Pathnames : Request(method, path)
    \/ \E r \in pending, def \in WorkerDefinitions : PostBody(r, def)
    \/ \E d \in Delays : Advance(d)
    \/ ExitTimerFires

SpecRegistry == Init /\ [][NextRegistry]_vars

OthersUnchanged(before, after, id) ==
    /\ DOMAIN after \ {id} = DOMAIN before \ {id}
    /\ \A i \in DOMAIN before \ {id} : after[i] = before[i]

\* C20: the map holds, for each id, the definition of the most recent POST
\* /workers/:id answered and not followed by a DELETE of that id or of the
\* collection, and GET /workers returns that map; POST and DELETE of an id
\* leave the other ids as they were, DELETE of the collection path empties the
\* map, and every other method/path is answered 404 with the map unchanged.
C20_RegistryContents ==
    /\ workers = reg.expected
    /\ reg.last # Undefined
          => LET e == reg.last[1] IN
             /\ e.status = IF IsRoute(e.method, e.path) THEN 200 ELSE 404
             /\ (e.method = "GET" /\ IsCollectionPath(e.path))
                   => e.body = JsonBody(e.before) /\ e.after = e.before
             /\ (e.method \in {"POST", "DELETE"} /\ IsItemPath(e.path))
                   => OthersUnchanged(e.before, e.after, e.path[2])
             /\ (e.method = "DELETE" /\ IsCollectionPath(e.path))
                   => e.after = NoWorkers
             /\ ~IsRoute(e.method, e.path) => e.after = e.before

====
